---- MODULE Spec2Model ----
(***************************************************************************)
(* A model of gm4-polyfill: the installer IIFEs of src/gm4-polyfill.js     *)
(* (the timeout variant "A" followed by the plain variant "B") and of      *)
(* src/unnamed/part_000 (variant "C"), the promisifying wrapper, the       *)
(* DOM-readiness waiter and the three polyfills: resource text, style      *)
(* injection and menu-command registration with its click handler.         *)
(***************************************************************************)
EXTENDS Integers, Sequences, FiniteSets, TLC

VARIABLES
    script,     \* the file being evaluated
    status,     \* "loading" | "loaded" | "aborted" (an uncaught exception)
    pos,        \* index of the next IIFE of the file to evaluate
    loads,      \* completed evaluations of the file
    runs,       \* IIFEs evaluated so far (identifies the closures a run creates)
    GMdefined,  \* whether window.GM holds an object
    GMowner,    \* "none" | "host" | "adapter": who created the object in window.GM
    GM,         \* the members of window.GM
    win,        \* the legacy surface: window[GM_*]
    GM_info,    \* the binding of the identifier GM_info
    host,       \* the surfaces as the host left them, before any installation
    call,       \* the last call of the promisifying wrapper
    now,        \* the clock, in milliseconds
    timers,     \* the pending timers
    doc,        \* the document: readyState, documentElement and body present or not
    waiter,     \* the call of utils.waitForBody
    notify,     \* mutation records are queued for the waiter's observer
    res,        \* the call of polyfills.GM_getResourceText
    page,       \* the document's head and the children appended to it
    styleCall,  \* the last call of polyfills.GM_addStyle
    menus,      \* the context-menu containers in the body, with their entries
    regs,       \* the calls of polyfills.GM_registerMenuCommand, in call order
    micro       \* the microtask queue: registrations whose await has settled

installVars == <<script, status, pos, loads, runs, GMdefined, GMowner, GM, win, GM_info, host>>
wrapperVars == <<call, now, timers>>
asyncVars == <<doc, waiter, notify, res>>
pageVars == <<page, styleCall, menus, regs, micro>>
vars == <<script, status, pos, loads, runs, GMdefined, GMowner, GM, win, GM_info, host,
          call, now, timers, doc, waiter, notify, res,
          page, styleCall, menus, regs, micro>>

(***************************************************************************)
(* Bounds of the model.                                                    *)
(***************************************************************************)
MaxHostNames == 2
MaxHostDirect == 0
MaxLoads == 2
MaxArgs == 2
MaxTicks == 12
TickMs == 1000

Min(a, b) == IF a < b THEN a ELSE b

(***************************************************************************)
(* JavaScript values, as far as the installer tells them apart.            *)
(***************************************************************************)
Undefined == [t |-> "undefined"]
Falsy == [t |-> "falsy"]
HostFn == [t |-> "function", kind |-> "host"]
HostObj == [t |-> "object", kind |-> "host"]
Native == [t |-> "function", kind |-> "native"]
Undeclared == [t |-> "undeclared"]
InfoObj == [t |-> "object", kind |-> "GM_info"]
EmptyObj(run) == [t |-> "object", kind |-> "empty", run |-> run]
VersionStr == [t |-> "string", kind |-> "4.0.0"]
ConsoleBound(method, run) == [t |-> "function", kind |-> "console", name |-> method, run |-> run]
Polyfill(key, variant, run) == [t |-> "function", kind |-> "polyfill", name |-> key, variant |-> variant, run |-> run]
Forwarder(old, variant, run) == [t |-> "function", kind |-> "forward", old |-> old, variant |-> variant, run |-> run]

Truthy(v) == v.t \notin {"undefined", "falsy"}
TypeofUndefined(v) == v.t = "undefined"

(***************************************************************************)
(* The mapping tables.                                                     *)
(***************************************************************************)
PromiseMappingsA ==
    << <<"GM_addStyle", "addStyle">>, <<"GM_deleteValue", "deleteValue">>,
       <<"GM_getResourceURL", "getResourceUrl">>, <<"GM_getValue", "getValue">>,
       <<"GM_listValues", "listValues">>, <<"GM_notification", "notification">>,
       <<"GM_openInTab", "openInTab">>, <<"GM_registerMenuCommand", "registerMenuCommand">>,
       <<"GM_setClipboard", "setClipboard">>, <<"GM_setValue", "setValue">>,
       <<"GM_xmlhttpRequest", "xmlHttpRequest">>, <<"GM_getResourceText", "getResourceText">>,
       <<"GM_download", "download">>, <<"GM_cookie", "cookie">> >>

PromiseMappingsB == SubSeq(PromiseMappingsA, 1, 12)

PromiseMappingsC == SubSeq(PromiseMappingsA, 1, 12)

PromiseMappings(variant) ==
    CASE variant = "A" -> PromiseMappingsA
      [] variant = "B" -> PromiseMappingsB
      [] OTHER -> PromiseMappingsC

DirectKeysA == <<"log", "info", "error", "warn">>

DirectKeysB == <<"log", "info">>

DirectKeysC == <<"log", "info">>

DirectKeys(variant) ==
    CASE variant = "A" -> DirectKeysA
      [] variant = "B" -> DirectKeysB
      [] OTHER -> DirectKeysC

PolyfillKeys == <<"GM_addStyle", "GM_registerMenuCommand", "GM_getResourceText">>

Range(s) == {s[i] : i \in 1..Len(s)}

LegacyKeys == {p[1] : p \in Range(PromiseMappingsA)}

UnifiedKeys == {p[2] : p \in Range(PromiseMappingsA)} \cup Range(DirectKeysA) \cup {"version"}

\* The IIFEs a file evaluates, in order.
Variants(file) == IF file = "gm4-polyfill.js" THEN <<"A", "B">> ELSE <<"C">>

(***************************************************************************)
(* The installer.  An IIFE threads s = [ok, GMdefined, GMowner, GM, win]   *)
(* through its four steps; ok turns FALSE when a step throws, and the      *)
(* steps after it do not run.                                              *)
(***************************************************************************)

\* if (!window.GM) window.GM = {...}
EnsureNamespace(variant, s, info, run) ==
    IF ~s.ok \/ s.GMdefined THEN s
    ELSE IF variant = "A"
         THEN IF info = Undeclared
              THEN [s EXCEPT !.ok = FALSE]
              ELSE [s EXCEPT !.GMdefined = TRUE, !.GMowner = "adapter",
                             !.GM = [k \in UnifiedKeys |->
                                       IF k = "info" THEN (IF Truthy(info) THEN info ELSE EmptyObj(run))
                                       ELSE IF k = "version" THEN VersionStr
                                       ELSE Undefined]]
         ELSE [s EXCEPT !.GMdefined = TRUE, !.GMowner = "adapter",
                        !.GM = [k \in UnifiedKeys |-> Undefined]]

\* the values of the directMappings object literal
DirectValue(key, info, run) == IF key = "info" THEN info ELSE ConsoleBound(key, run)

\* if (old && !GM[newKey])   /   if (old && typeof GM[newKey] === 'undefined')
DirectGuard(variant, old, cur) ==
    IF variant = "C" THEN Truthy(old) /\ TypeofUndefined(cur)
    ELSE Truthy(old) /\ ~Truthy(cur)

RECURSIVE DirectLoop(_, _, _, _, _)
DirectLoop(keys, gm, variant, info, run) ==
    IF keys = <<>> THEN gm
    ELSE LET newKey == Head(keys)
             old == DirectValue(newKey, info, run)
         IN DirectLoop(Tail(keys),
                       IF DirectGuard(variant, old, gm[newKey])
                       THEN [gm EXCEPT ![newKey] = old] ELSE gm,
                       variant, info, run)

\* const directMappings = {...}; for (...) { GM[newKey] = old }
InstallDirect(variant, s, info, run) ==
    IF ~s.ok THEN s
    ELSE IF info = Undeclared THEN [s EXCEPT !.ok = FALSE]
    ELSE [s EXCEPT !.GM = DirectLoop(DirectKeys(variant), s.GM, variant, info, run)]
\* the guard with its test inverted
PolyfillGuardInverted(cur) == ~TypeofUndefined(cur)

\* the guard testing the legacy entry for truthiness
PolyfillGuardTruthiness(cur) == ~Truthy(cur)

\* if (typeof window[key] === 'undefined')
PolyfillGuard(cur) == TypeofUndefined(cur)

RECURSIVE PolyfillLoop(_, _, _, _)
PolyfillLoop(keys, w, variant, run) ==
    IF keys = <<>> THEN w
    ELSE LET key == Head(keys)
         IN PolyfillLoop(Tail(keys),
                         IF PolyfillGuard(w[key])
                         THEN [w EXCEPT ![key] = Polyfill(key, variant, run)] ELSE w,
                         variant, run)

InstallPolyfills(variant, s, run) ==
    IF ~s.ok THEN s
    ELSE [s EXCEPT !.win = PolyfillLoop(PolyfillKeys, s.win, variant, run)]
\* the guard without its test of the unified member
ForwardGuardIgnoresExisting(variant, old, cur) == Truthy(old)

\* if (old && !GM[newKey])   /   if (old && typeof GM[newKey] === 'undefined')
ForwardGuard(variant, old, cur) ==
    IF variant = "C" THEN Truthy(old) /\ TypeofUndefined(cur)
    ELSE Truthy(old) /\ ~Truthy(cur)

RECURSIVE ForwardLoop(_, _, _, _, _)
ForwardLoop(pairs, gm, w, variant, run) ==
    IF pairs = <<>> THEN gm
    ELSE LET oldKey == Head(pairs)[1]
             newKey == Head(pairs)[2]
             old == w[oldKey]
         IN ForwardLoop(Tail(pairs),
                        IF ForwardGuard(variant, old, gm[newKey])
                        THEN [gm EXCEPT ![newKey] = Forwarder(old, variant, run)] ELSE gm,
                        w, variant, run)

InstallForwarding(variant, s, run) ==
    IF ~s.ok THEN s
    ELSE [s EXCEPT !.GM = ForwardLoop(PromiseMappings(variant), s.GM, s.win, variant, run)]

\* the forwarding loop placed before the polyfill loop
InstallerForwardsFirst(variant, s, info, run) ==
    InstallPolyfills(variant,
        InstallForwarding(variant,
            InstallDirect(variant,
                EnsureNamespace(variant, s, info, run),
                info, run),
            run),
        run)

\* One IIFE, start to end: the four steps in the order of the source.
Installer(variant, s, info, run) ==
    InstallForwarding(variant,
        InstallPolyfills(variant,
            InstallDirect(variant,
                EnsureNamespace(variant, s, info, run),
                info, run),
            run),
        run)

(***************************************************************************)
(* The states the host can leave the two surfaces in.                      *)
(***************************************************************************)
HostLegacyValues == {Undefined, Falsy, HostFn}

HostUnifiedValues == {Undefined, Falsy, Native}

HostLegacyNames == {PromiseMappingsA[i][1] : i \in 1..Min(MaxHostNames, Len(PromiseMappingsA))}

HostUnifiedNames ==
    {PromiseMappingsA[i][2] : i \in 1..Min(MaxHostNames, Len(PromiseMappingsA))}
    \cup {DirectKeysA[i] : i \in 1..Min(MaxHostDirect, Len(DirectKeysA))}

\* Before any IIFE has run: the host has bound legacy names to values of
\* legacyValues, may have created window.GM with members of its own, and
\* binds GM_info as one of infos.
InitInstall(legacyValues, unifiedNames, infos) ==
    /\ script \in {"gm4-polyfill.js", "part_000"}
    /\ status = "loading"
    /\ pos = 1
    /\ loads = 0
    /\ runs = 0
    /\ GM_info \in infos
    /\ \E f \in [HostLegacyNames -> legacyValues] :
          win = [k \in LegacyKeys |-> IF k \in HostLegacyNames THEN f[k] ELSE Undefined]
    /\ \/ /\ GMdefined = FALSE
          /\ GMowner = "none"
          /\ GM = [k \in UnifiedKeys |-> Undefined]
       \/ /\ GMdefined = TRUE
          /\ GMowner = "host"
          /\ \E g \in [unifiedNames -> HostUnifiedValues] :
                GM = [k \in UnifiedKeys |-> IF k \in unifiedNames THEN g[k] ELSE Undefined]
    /\ host = [GMdefined |-> GMdefined, GM |-> GM, win |-> win]

\* The next IIFE of the file runs to its end (or to its uncaught exception).
RunIIFE ==
    /\ status = "loading"
    /\ LET variant == Variants(script)[pos]
           s == Installer(variant,
                          [ok |-> TRUE, GMdefined |-> GMdefined, GMowner |-> GMowner,
                           GM |-> GM, win |-> win],
                          GM_info, runs + 1)
       IN /\ GMdefined' = s.GMdefined
          /\ GMowner' = s.GMowner
          /\ GM' = s.GM
          /\ win' = s.win
          /\ runs' = runs + 1
          /\ IF ~s.ok
             THEN /\ status' = "aborted"
                  /\ UNCHANGED <<pos, loads>>
             ELSE IF pos = Len(Variants(script))
             THEN /\ status' = "loaded"
                  /\ pos' = 1
                  /\ loads' = loads + 1
             ELSE /\ status' = "loading"
                  /\ pos' = pos + 1
                  /\ UNCHANGED loads
    /\ UNCHANGED <<script, GM_info, host>>
    /\ UNCHANGED wrapperVars
    /\ UNCHANGED asyncVars
    /\ UNCHANGED pageVars

\* The file is evaluated again in the same page (a second @require of it).
Reload ==
    /\ status \in {"loaded", "aborted"}
    /\ loads < MaxLoads
    /\ runs < MaxLoads * Len(Variants(script))
    /\ status' = "loading"
    /\ pos' = 1
    /\ UNCHANGED <<script, loads, runs, GMdefined, GMowner, GM, win, GM_info, host>>
    /\ UNCHANGED wrapperVars
    /\ UNCHANGED asyncVars
    /\ UNCHANGED pageVars

(***************************************************************************)
(* The promisifying wrapper and the forwarding capabilities.               *)
(***************************************************************************)
DefaultTimeout == 5000

Str(x) == [t |-> "string", s |-> x]
Num(n) == [t |-> "number", n |-> n]

\* What a legacy entry point does with the argument list it receives.
Returned(args) == [t |-> "value", of |-> args]
Thrown(args) == [t |-> "error", kind |-> "thrown", of |-> args]
Deferred(args) == [t |-> "promise", of |-> args]
TypeError == [t |-> "error", kind |-> "TypeError", of |-> <<>>]
TimeoutError == [t |-> "error", kind |-> "Operation timed out", of |-> <<>>]

Behaviours == {"returns", "throws", "defers"}

ArgValues == {Str("key"), Num(2000)}

ArgLists == UNION {[1..n -> ArgValues] : n \in 0..MaxArgs}

\* setTimeout coerces its delay to a number; NaN counts as 0
DelayOf(v) == IF v.t = "number" THEN v.n ELSE 0

SetTimeout(ts, kind, delay, t) == ts \cup {[kind |-> kind, due |-> t + delay]}

ClearTimeout(ts, kind) == {x \in ts : x.kind # kind}

\* A promise is "pending", "following" (resolved with a thenable that has not
\* settled), "fulfilled" or "rejected"; only a pending one can be settled.
PendingPromise == [state |-> "pending", value |-> Undefined]

Resolve(p, v) ==
    IF p.state # "pending" THEN p
    ELSE IF v.t = "promise" THEN [state |-> "following", value |-> v]
    ELSE [state |-> "fulfilled", value |-> v]

Reject(p, e) == IF p.state # "pending" THEN p ELSE [state |-> "rejected", value |-> e]

\* fn.apply(this, args): a value that is no function has no apply to call
ApplyFn(fn, args, beh) ==
    IF fn.t # "function"
    THEN [kind |-> "throw", val |-> TypeError, invoked |-> 0, with |-> <<>>]
    ELSE IF beh = "throws"
    THEN [kind |-> "throw", val |-> Thrown(args), invoked |-> 1, with |-> args]
    ELSE IF beh = "defers"
    THEN [kind |-> "return", val |-> Deferred(args), invoked |-> 1, with |-> args]
    ELSE [kind |-> "return", val |-> Returned(args), invoked |-> 1, with |-> args]
\* the wrapper resolving in its catch block
PromisifyTimeoutSwallows(fn, timeout, args, beh, ts, t) ==
    LET r == ApplyFn(fn, args, beh)
    IN [promise |-> IF r.kind = "return" THEN Resolve(PendingPromise, r.val)
                    ELSE Resolve(PendingPromise, Undefined),
        timers |-> ts,
        invocations |-> r.invoked,
        invokedWith |-> r.with,
        threw |-> FALSE,
        timeout |-> timeout,
        deadline |-> t + DelayOf(timeout)]

\* the wrapper applying fn before it creates its promise
PromisifyTimeoutEager(fn, timeout, args, beh, ts, t) ==
    LET r == ApplyFn(fn, args, beh)
    IN [promise |-> IF r.kind = "return" THEN Resolve(PendingPromise, r.val)
                    ELSE PendingPromise,
        timers |-> ts,
        invocations |-> r.invoked,
        invokedWith |-> r.with,
        threw |-> r.kind = "throw",
        timeout |-> timeout,
        deadline |-> t + DelayOf(timeout)]

\* the wrapper without clearTimeout in its catch block
PromisifyTimeoutLeaksOnThrow(fn, timeout, args, beh, ts, t) ==
    LET armed == SetTimeout(ts, "promisify", DelayOf(timeout), t)
        r == ApplyFn(fn, args, beh)
        cleared == ClearTimeout(armed, "promisify")
    IN [promise |-> IF r.kind = "return" THEN Resolve(PendingPromise, r.val)
                    ELSE Reject(PendingPromise, r.val),
        timers |-> IF r.kind = "return" THEN cleared ELSE armed,
        invocations |-> r.invoked,
        invokedWith |-> r.with,
        threw |-> FALSE,
        timeout |-> timeout,
        deadline |-> t + DelayOf(timeout)]

\* promisify(fn, timeout = 5000, ...args), the executor of its promise
PromisifyTimeout(fn, timeout, args, beh, ts, t) ==
    LET armed == SetTimeout(ts, "promisify", DelayOf(timeout), t)
        r == ApplyFn(fn, args, beh)
        cleared == ClearTimeout(armed, "promisify")
    IN [promise |-> IF r.kind = "return" THEN Resolve(PendingPromise, r.val)
                    ELSE Reject(PendingPromise, r.val),
        timers |-> cleared,
        invocations |-> r.invoked,
        invokedWith |-> r.with,
        threw |-> FALSE,
        timeout |-> timeout,
        deadline |-> t + DelayOf(timeout)]

\* promisify(fn, ...args) of the variants without a timeout
PromisifyPlain(fn, args, beh, ts, t) ==
    LET r == ApplyFn(fn, args, beh)
    IN [promise |-> IF r.kind = "return" THEN Resolve(PendingPromise, r.val)
                    ELSE Reject(PendingPromise, r.val),
        timers |-> ts,
        invocations |-> r.invoked,
        invokedWith |-> r.with,
        threw |-> FALSE,
        timeout |-> Undefined,
        deadline |-> 0]

\* (...args) => utils.promisify(old, ...args): the spread fills the
\* parameters of promisify in order
ForwardCall(fwd, spread, beh, ts, t) ==
    IF fwd.variant = "A"
    THEN PromisifyTimeout(fwd.old,
                          IF spread = <<>> THEN Num(DefaultTimeout) ELSE Head(spread),
                          IF spread = <<>> THEN <<>> ELSE Tail(spread),
                          beh, ts, t)
    ELSE PromisifyPlain(fwd.old, spread, beh, ts, t)

NoCall ==
    [made |-> FALSE, via |-> "", variant |-> "", fn |-> Undefined, spread |-> <<>>,
     beh |-> "", promise |-> PendingPromise, invocations |-> 0, invokedWith |-> <<>>,
     threw |-> FALSE, timeout |-> Undefined, deadline |-> 0]

CallRecord(via, variant, fn, spread, beh, r) ==
    [made |-> TRUE, via |-> via, variant |-> variant, fn |-> fn, spread |-> spread,
     beh |-> beh, promise |-> r.promise, invocations |-> r.invocations,
     invokedWith |-> r.invokedWith, threw |-> r.threw, timeout |-> r.timeout,
     deadline |-> r.deadline]

\* Caller code invokes GM[u](...spread) once the file has been evaluated
\* (the model follows one call).
CallUnified ==
    /\ status = "loaded"
    /\ ~call.made
    /\ \E u \in UnifiedKeys, spread \in ArgLists, beh \in Behaviours :
          /\ GM[u].t = "function"
          /\ GM[u].kind = "forward"
          /\ LET r == ForwardCall(GM[u], spread, beh, timers, now)
             IN /\ call' = CallRecord(u, GM[u].variant, GM[u].old, spread, beh, r)
                /\ timers' = r.timers
    /\ UNCHANGED now
    /\ UNCHANGED asyncVars
    /\ UNCHANGED installVars
    /\ UNCHANGED pageVars

\* The deferred result a legacy entry point returned settles.
InnerSettle ==
    /\ call.made
    /\ call.promise.state = "following"
    /\ \E how \in {"fulfilled", "rejected"} :
          call' = [call EXCEPT !.promise =
                      [state |-> how,
                       value |-> IF how = "fulfilled" THEN Returned(call.promise.value.of)
                                 ELSE Thrown(call.promise.value.of)]]
    /\ UNCHANGED <<now, timers>>
    /\ UNCHANGED asyncVars
    /\ UNCHANGED installVars
    /\ UNCHANGED pageVars

(***************************************************************************)
(* Time.  A timer that is due fires before the clock moves on.             *)
(***************************************************************************)
Tick ==
    /\ now < MaxTicks * TickMs
    /\ \A x \in timers : x.due > now
    /\ \A i \in 1..Len(regs) : \A x \in regs[i].timers : x.due > now
    /\ ~notify
    /\ micro = <<>>
    /\ now' = now + TickMs
    /\ UNCHANGED <<call, timers>>
    /\ UNCHANGED asyncVars
    /\ UNCHANGED installVars
    /\ UNCHANGED pageVars

\* utils.promisify called on its own, with an explicit timeout where the
\* variant has one.
PromisifyCall ==
    /\ ~call.made
    /\ waiter.state = "idle"
    /\ res.state = "idle"
    /\ \E variant \in {"A", "B"}, fn \in {HostFn, HostObj},
          timeout \in {Num(DefaultTimeout), Num(2000)},
          args \in ArgLists, beh \in Behaviours :
          /\ variant = "B" => timeout = Num(DefaultTimeout)
          /\ LET r == IF variant = "A"
                      THEN PromisifyTimeout(fn, timeout, args, beh, timers, now)
                      ELSE PromisifyPlain(fn, args, beh, timers, now)
             IN /\ call' = CallRecord("", variant, fn, args, beh, r)
                /\ timers' = r.timers
    /\ UNCHANGED now
    /\ UNCHANGED asyncVars
    /\ UNCHANGED installVars
    /\ UNCHANGED pageVars

(***************************************************************************)
(* The DOM-readiness waiter.                                               *)
(***************************************************************************)
BodyTimeout == 10000

IdleWaiter ==
    [state |-> "idle", variant |-> "", observer |-> "none", bodyAtCall |-> FALSE,
     value |-> "", resolves |-> 0, rejects |-> 0]

\* resolve / reject of the waiter's promise: only the first call settles it
WaiterResolve(w) ==
    [w EXCEPT !.state = IF w.state = "pending" THEN "resolved" ELSE w.state,
              !.value = IF w.state = "pending" THEN "document.body" ELSE w.value,
              !.resolves = w.resolves + 1]

WaiterReject(w) ==
    [w EXCEPT !.state = IF w.state = "pending" THEN "rejected" ELSE w.state,
              !.value = IF w.state = "pending" THEN "Timeout waiting for body" ELSE w.value,
              !.rejects = w.rejects + 1]

\* if (document.readyState === 'loading' && document.documentElement)
ObserveGuard(d) == d.readyState = "loading" /\ d.root

\* the waiter without its timer
WaitForBodyTimeoutUnbounded(d, ts, t) ==
    LET w == [IdleWaiter EXCEPT !.state = "pending", !.variant = "A", !.bodyAtCall = d.body]
    IN IF d.body
       THEN [waiter |-> WaiterResolve(w), timers |-> ts]
       ELSE [waiter |-> [w EXCEPT !.observer = IF ObserveGuard(d) THEN "observing" ELSE "created"],
             timers |-> ts]

\* the waiter arming its timer before it looks for the body
WaitForBodyTimeoutArmsFirst(d, ts, t) ==
    LET w == [IdleWaiter EXCEPT !.state = "pending", !.variant = "A", !.bodyAtCall = d.body]
        armed == SetTimeout(ts, "waitForBody", BodyTimeout, t)
    IN IF d.body
       THEN [waiter |-> WaiterResolve(w), timers |-> armed]
       ELSE [waiter |-> [w EXCEPT !.observer = IF ObserveGuard(d) THEN "observing" ELSE "created"],
             timers |-> armed]

\* waitForBody(timeout = 10000) of variant A: the executor of its promise
WaitForBodyTimeout(d, ts, t) ==
    LET w == [IdleWaiter EXCEPT !.state = "pending", !.variant = "A", !.bodyAtCall = d.body]
    IN IF d.body
       THEN [waiter |-> WaiterResolve(w), timers |-> ts]
       ELSE [waiter |-> [w EXCEPT !.observer = IF ObserveGuard(d) THEN "observing" ELSE "created"],
             timers |-> SetTimeout(ts, "waitForBody", BodyTimeout, t)]

\* waitForBody() of the variants without a timeout
WaitForBodyPlain(d, ts, t) ==
    LET w == [IdleWaiter EXCEPT !.state = "pending", !.variant = "C", !.bodyAtCall = d.body]
    IN IF d.body
       THEN [waiter |-> WaiterResolve(w), timers |-> ts]
       ELSE [waiter |-> [w EXCEPT !.observer = IF ObserveGuard(d) THEN "observing" ELSE "none"],
             timers |-> ts]

WaitForBodyCall ==
    /\ ~call.made
    /\ waiter.state = "idle"
    /\ res.state = "idle"
    /\ \E variant \in {"A", "C"} :
          LET r == IF variant = "A" THEN WaitForBodyTimeout(doc, timers, now)
                   ELSE WaitForBodyPlain(doc, timers, now)
          IN /\ waiter' = r.waiter
             /\ timers' = r.timers
    /\ UNCHANGED <<call, now, doc, notify, res>>
    /\ UNCHANGED installVars
    /\ UNCHANGED pageVars

\* the observer's callback without clearTimeout
ObserverBodyKeepsTimer(w, d, ts) ==
    IF d.body
    THEN [waiter |-> WaiterResolve([w EXCEPT !.observer = "disconnected"]), timers |-> ts]
    ELSE [waiter |-> w, timers |-> ts]

\* new MutationObserver((_, observer) => { if (document.body) {...} })
ObserverBody(w, d, ts) ==
    IF d.body
    THEN [waiter |-> WaiterResolve([w EXCEPT !.observer = "disconnected"]),
          timers |-> IF w.variant = "A" THEN ClearTimeout(ts, "waitForBody") ELSE ts]
    ELSE [waiter |-> w, timers |-> ts]

\* Some waiter's observer is connected to the root element.
AnyObserving ==
    \/ waiter.observer = "observing"
    \/ \E i \in 1..Len(regs) : regs[i].waiter.observer = "observing"

\* The observers' callbacks run at the microtask checkpoint after a mutation,
\* in the order the observers were created.
ObserverCallback ==
    /\ notify
    /\ notify' = FALSE
    /\ LET r == IF waiter.observer = "observing" THEN ObserverBody(waiter, doc, timers)
                ELSE [waiter |-> waiter, timers |-> timers]
       IN /\ waiter' = r.waiter
          /\ timers' = r.timers
    /\ regs' = [i \in 1..Len(regs) |->
                  IF regs[i].waiter.observer = "observing"
                  THEN LET r == ObserverBody(regs[i].waiter, doc, regs[i].timers)
                       IN [regs[i] EXCEPT !.waiter = r.waiter, !.timers = r.timers,
                                          !.state = IF r.waiter.state = "resolved"
                                                    THEN "queued" ELSE @]
                  ELSE regs[i]]
    /\ micro' = micro \o SelectSeq([i \in 1..Len(regs) |-> i],
                                   LAMBDA i : regs[i].state = "waiting" /\ regs'[i].state = "queued")
    /\ UNCHANGED <<call, now, doc, res>>
    /\ UNCHANGED installVars
    /\ UNCHANGED <<page, styleCall, menus>>

\* The document gets its root element.
RootAppears ==
    /\ ~notify
    /\ micro = <<>>
    /\ ~doc.root
    /\ doc' = [doc EXCEPT !.root = TRUE]
    /\ UNCHANGED <<call, now, timers, waiter, notify, res>>
    /\ UNCHANGED installVars
    /\ UNCHANGED pageVars

\* The body is inserted under the root element.
BodyAppears ==
    /\ ~notify
    /\ micro = <<>>
    /\ doc.root
    /\ ~doc.body
    /\ doc' = [doc EXCEPT !.body = TRUE]
    /\ notify' = AnyObserving
    /\ UNCHANGED <<call, now, timers, waiter, res>>
    /\ UNCHANGED installVars
    /\ UNCHANGED pageVars

\* Another child (the head, a comment) is inserted under the root element.
OtherMutation ==
    /\ ~notify
    /\ micro = <<>>
    /\ doc.root
    /\ ~doc.body
    /\ AnyObserving
    /\ notify' = TRUE
    /\ UNCHANGED <<call, now, timers, doc, waiter, res>>
    /\ UNCHANGED installVars
    /\ UNCHANGED pageVars

\* document.readyState moves on: loading, interactive, complete.
ReadyStateAdvance ==
    /\ ~notify
    /\ micro = <<>>
    /\ doc.readyState # "complete"
    /\ doc' = [doc EXCEPT !.readyState = IF doc.readyState = "loading" THEN "interactive"
                                         ELSE "complete"]
    /\ UNCHANGED <<call, now, timers, waiter, notify, res>>
    /\ UNCHANGED installVars
    /\ UNCHANGED pageVars

(***************************************************************************)
(* polyfills.GM_getResourceText of variant A.                              *)
(***************************************************************************)
MaxRetriesDefault == 3
\* Math.pow with its arguments swapped
Pow2Swapped(n) == n * n

RECURSIVE Pow2(_)
Pow2(n) == IF n = 0 THEN 1 ELSE 2 * Pow2(n - 1)

\* How one pass through the try block ends: with the text, or with a failure
\* in GM.getResourceUrl (missing or rejecting), in fetch, in the status check
\* or in response.text().
AttemptOutcomes == {"ok", "urlUnavailable", "urlRejects", "fetchRejects", "httpStatus", "textRejects"}

IdleRes ==
    [state |-> "idle", attempts |-> 0, tries |-> 0, outcomes |-> <<>>, delays |-> <<>>,
     result |-> "none", rejected |-> FALSE]

\* while (attempts < maxRetries) { try {
LoopHead(r) ==
    IF r.attempts < MaxRetriesDefault
    THEN [r EXCEPT !.state = "attempt", !.tries = r.tries + 1]
    ELSE [r EXCEPT !.state = "done", !.result = "undefined"]
\* the catch block without its test of exhaustion
AttemptEndAlwaysSleeps(r, outcome, ts, t) ==
    LET seen == [r EXCEPT !.outcomes = Append(r.outcomes, outcome)]
    IN IF outcome = "ok"
       THEN [res |-> [seen EXCEPT !.state = "done", !.result = "text"], timers |-> ts]
       ELSE LET n == r.attempts + 1
            IN [res |-> [seen EXCEPT !.attempts = n, !.state = "sleeping",
                                     !.delays = Append(r.delays, Pow2(n) * 1000)],
                timers |-> SetTimeout(ts, "backoff", Pow2(n) * 1000, t)]

\* return await response.text()  /  catch (error) { attempts++; ... }
AttemptEnd(r, outcome, ts, t) ==
    LET seen == [r EXCEPT !.outcomes = Append(r.outcomes, outcome)]
    IN IF outcome = "ok"
       THEN [res |-> [seen EXCEPT !.state = "done", !.result = "text"], timers |-> ts]
       ELSE LET n == r.attempts + 1
            IN IF n = MaxRetriesDefault
               THEN [res |-> [seen EXCEPT !.attempts = n, !.state = "done", !.result = "null"],
                     timers |-> ts]
               ELSE [res |-> [seen EXCEPT !.attempts = n, !.state = "sleeping",
                                          !.delays = Append(r.delays, Pow2(n) * 1000)],
                     timers |-> SetTimeout(ts, "backoff", Pow2(n) * 1000, t)]

GetResourceTextCall ==
    /\ ~call.made
    /\ waiter.state = "idle"
    /\ res.state = "idle"
    /\ res' = LoopHead(res)
    /\ UNCHANGED <<call, now, timers, doc, waiter, notify>>
    /\ UNCHANGED installVars
    /\ UNCHANGED pageVars

\* The awaits of one attempt are over.
AttemptEnds ==
    /\ res.state = "attempt"
    /\ ~notify
    /\ \E outcome \in AttemptOutcomes :
          LET r == AttemptEnd(res, outcome, timers, now)
          IN /\ res' = r.res
             /\ timers' = r.timers
    /\ UNCHANGED <<call, now, doc, waiter, notify>>
    /\ UNCHANGED installVars
    /\ UNCHANGED pageVars

(***************************************************************************)
(* polyfills.GM_addStyle.  page.head is "none", "document" (the head child *)
(* of the root element, what document.head returns) or "stray" (a head     *)
(* element only a lookup by tag name finds).                               *)
(***************************************************************************)
MaxStyles == 2

Null == [t |-> "null"]

StyleTexts == {"", "body{margin:0}", "a{color:red}"}

DocumentHead(pg) == IF pg.head = "document" THEN "document" ELSE "none"

HeadByTag(pg) == pg.head

\* document.head || document.getElementsByTagName('head')[0]  /  document.head  /
\* document.getElementsByTagName('head')[0]
FindHead(variant, pg) ==
    CASE variant = "A" -> IF DocumentHead(pg) # "none" THEN DocumentHead(pg) ELSE HeadByTag(pg)
      [] variant = "B" -> DocumentHead(pg)
      [] OTHER -> HeadByTag(pg)

\* document.createElement('style') with its type, marker and textContent set
StyleNode(variant, css, n) ==
    [t |-> "style", type |-> "text/css",
     source |-> IF variant = "A" THEN "GM_addStyle" ELSE "",
     textContent |-> css, node |-> n]
\* the polyfill without its try block
AddStyleUncaught(variant, pg, css) ==
    LET head == FindHead(variant, pg)
        style == StyleNode(variant, css, Len(pg.styles) + 1)
    IN IF head = "none"
       THEN [page |-> pg, result |-> IF variant = "A" THEN Undefined ELSE Null,
             threw |-> variant = "A", logged |-> FALSE]
       ELSE [page |-> [pg EXCEPT !.styles = Append(pg.styles, style)], result |-> style,
             threw |-> FALSE, logged |-> FALSE]

\* GM_addStyle(css): variant A throws inside its try block when it finds no
\* head, and its catch block logs and returns null
AddStyle(variant, pg, css) ==
    LET head == FindHead(variant, pg)
        style == StyleNode(variant, css, Len(pg.styles) + 1)
    IN IF head = "none"
       THEN [page |-> pg, result |-> Null, threw |-> FALSE, logged |-> variant = "A"]
       ELSE [page |-> [pg EXCEPT !.styles = Append(pg.styles, style)], result |-> style,
             threw |-> FALSE, logged |-> FALSE]

\* Caller code invokes the polyfill installed as window.GM_addStyle.
AddStyleCall ==
    /\ status = "loaded"
    /\ win["GM_addStyle"].t = "function"
    /\ win["GM_addStyle"].kind = "polyfill"
    /\ Len(page.styles) < MaxStyles
    /\ \E css \in StyleTexts :
          LET variant == win["GM_addStyle"].variant
              r == AddStyle(variant, page, css)
          IN /\ page' = r.page
             /\ styleCall' = [made |-> TRUE, variant |-> variant, css |-> css,
                              headBefore |-> page.head, stylesBefore |-> page.styles,
                              stylesAfter |-> r.page.styles, result |-> r.result,
                              threw |-> r.threw, logged |-> r.logged]
    /\ UNCHANGED <<menus, regs, micro>>
    /\ UNCHANGED wrapperVars
    /\ UNCHANGED asyncVars
    /\ UNCHANGED installVars

\* The parser inserts the head under the root element.
HeadAppears ==
    /\ doc.root
    /\ ~doc.body
    /\ page.head = "none"
    /\ page' = [page EXCEPT !.head = "document"]
    /\ UNCHANGED <<styleCall, menus, regs, micro>>
    /\ UNCHANGED wrapperVars
    /\ UNCHANGED asyncVars
    /\ UNCHANGED installVars

(***************************************************************************)
(* polyfills.GM_registerMenuCommand.  Each call has its own waiter and its *)
(* own timer; the code after its await runs as a microtask once the waiter *)
(* has settled.                                                            *)
(***************************************************************************)
MaxRegs == 2
MaxClicks == 2
MaxCallTicks == 1

MenuId == "gm-registered-menu"

NoMenus == [attr |-> "", prop |-> "", containers |-> <<>>]

\* The call up to its await: the waiter's executor has run.
NewReg(variant, w, ts, t) ==
    [variant |-> variant, calledAt |-> t,
     state |-> IF w.state = "pending" THEN "waiting" ELSE "queued",
     waiter |-> w, timers |-> ts, result |-> "pending", rejected |-> FALSE,
     logged |-> FALSE, created |-> FALSE, listening |-> FALSE,
     clicks |-> 0, invoked |-> 0, failed |-> 0, caught |-> 0, awaiting |-> 0,
     escaped |-> 0, unhandled |-> 0]

\* document.getElementById(menuId)  /  the menu the body's contextmenu
\* attribute names: the index of the container found, 0 for none
FindMenu(variant, ms) ==
    IF variant = "C"
    THEN IF ms.attr = "" THEN 0
         ELSE IF \E m \in 1..Len(ms.containers) : ms.containers[m].id = ms.attr
         THEN CHOOSE m \in 1..Len(ms.containers) :
                  /\ ms.containers[m].id = ms.attr
                  /\ \A k \in 1..(m - 1) : ms.containers[k].id # ms.attr
         ELSE 0
    ELSE IF ms.containers = <<>> THEN 0 ELSE 1

\* menu = document.createElement('menu'); ...; body.appendChild(menu)
CreateMenu(variant, ms, i) ==
    [attr |-> IF variant = "C" THEN MenuId ELSE ms.attr,
     prop |-> IF variant = "C" THEN ms.prop ELSE MenuId,
     containers |-> Append(ms.containers, [id |-> MenuId, by |-> i, items |-> <<>>])]
\* the code after the await creating its container without looking for one
ResumeAlwaysCreates(r, ms, i) ==
    IF r.waiter.state = "rejected"
    THEN [reg |-> [r EXCEPT !.state = "done", !.logged = TRUE,
                            !.result = IF r.variant = "C" THEN "undefined" ELSE "null"],
          menus |-> ms]
    ELSE LET withMenu == CreateMenu(r.variant, ms, i)
             m == Len(withMenu.containers)
         IN [reg |-> [r EXCEPT !.state = "done", !.created = TRUE, !.listening = TRUE,
                               !.result = IF r.variant = "C" THEN "undefined" ELSE "entry"],
             menus |-> [withMenu EXCEPT !.containers[m].items = Append(@, i)]]

\* The code after `await utils.waitForBody()`: the catch block when the
\* waiter rejected; otherwise find or create the container, append the entry
\* with its click listener, and return it (part_000 returns nothing).
Resume(r, ms, i) ==
    IF r.waiter.state = "rejected"
    THEN [reg |-> [r EXCEPT !.state = "done", !.logged = TRUE,
                            !.result = IF r.variant = "C" THEN "undefined" ELSE "null"],
          menus |-> ms]
    ELSE LET found == FindMenu(r.variant, ms)
             withMenu == IF found = 0 THEN CreateMenu(r.variant, ms, i) ELSE ms
             m == IF found = 0 THEN Len(withMenu.containers) ELSE found
         IN [reg |-> [r EXCEPT !.state = "done", !.created = (found = 0), !.listening = TRUE,
                               !.result = IF r.variant = "C" THEN "undefined" ELSE "entry"],
             menus |-> [withMenu EXCEPT !.containers[m].items = Append(@, i)]]

\* Caller code invokes the polyfill installed as window.GM_registerMenuCommand.
RegisterCall ==
    /\ status = "loaded"
    /\ win["GM_registerMenuCommand"].t = "function"
    /\ win["GM_registerMenuCommand"].kind = "polyfill"
    /\ Len(regs) < MaxRegs
    /\ now <= MaxCallTicks * TickMs
    /\ ~notify
    /\ LET variant == win["GM_registerMenuCommand"].variant
           r == IF variant = "A" THEN WaitForBodyTimeout(doc, {}, now)
                ELSE WaitForBodyPlain(doc, {}, now)
           reg == NewReg(variant, r.waiter, r.timers, now)
       IN /\ regs' = Append(regs, reg)
          /\ micro' = IF reg.state = "queued" THEN Append(micro, Len(regs) + 1) ELSE micro
    /\ UNCHANGED <<page, styleCall, menus>>
    /\ UNCHANGED wrapperVars
    /\ UNCHANGED asyncVars
    /\ UNCHANGED installVars

\* The first queued microtask runs: a registration goes on after its await.
RegResume ==
    /\ micro # <<>>
    /\ LET i == Head(micro)
           r == Resume(regs[i], menus, i)
       IN /\ regs' = [regs EXCEPT ![i] = r.reg]
          /\ menus' = r.menus
    /\ micro' = Tail(micro)
    /\ UNCHANGED <<page, styleCall>>
    /\ UNCHANGED wrapperVars
    /\ UNCHANGED asyncVars
    /\ UNCHANGED installVars

\* The timer of a registration's waiter fires: observer.disconnect(); reject(...)
RegTimerFire ==
    /\ ~notify
    /\ micro = <<>>
    /\ \E i \in 1..Len(regs) : \E x \in regs[i].timers :
          /\ x.due <= now
          /\ regs' = [regs EXCEPT ![i] =
                        [@ EXCEPT !.timers = @ \ {x},
                                  !.waiter = WaiterReject([@ EXCEPT !.observer = "disconnected"]),
                                  !.state = IF @ = "waiting" THEN "queued" ELSE @]]
          /\ micro' = IF regs[i].state = "waiting" THEN Append(micro, i) ELSE micro
    /\ UNCHANGED <<page, styleCall, menus>>
    /\ UNCHANGED wrapperVars
    /\ UNCHANGED asyncVars
    /\ UNCHANGED installVars

\* What the caller's command does when it is invoked.
CommandBehaviours == {"returns", "throws", "rejects"}
\* the listener registered without { once: true }
OnClickKeepsListener(r, beh) ==
    IF ~r.listening THEN [r EXCEPT !.clicks = @ + 1]
    ELSE [r EXCEPT !.clicks = @ + 1,
                   !.invoked = @ + 1,
                   !.failed = IF beh = "returns" THEN @ ELSE @ + 1,
                   !.caught = IF r.variant = "A" /\ beh = "throws" THEN @ + 1 ELSE @,
                   !.awaiting = IF r.variant = "A" /\ beh = "rejects" THEN @ + 1 ELSE @,
                   !.escaped = IF r.variant # "A" /\ beh = "throws" THEN @ + 1 ELSE @,
                   !.unhandled = IF r.variant # "A" /\ beh = "rejects" THEN @ + 1 ELSE @]

\* A click on the entry.  Variants A and B listen with { once: true }, part_000
\* with the capture flag; variant A's listener is wrappedCommand, which
\* awaits the command inside try/catch; the others register the command itself.
OnClick(r, beh) ==
    IF ~r.listening THEN [r EXCEPT !.clicks = @ + 1]
    ELSE [r EXCEPT !.clicks = @ + 1,
                   !.listening = (r.variant = "C"),
                   !.invoked = @ + 1,
                   !.failed = IF beh = "returns" THEN @ ELSE @ + 1,
                   !.caught = IF r.variant = "A" /\ beh = "throws" THEN @ + 1 ELSE @,
                   !.awaiting = IF r.variant = "A" /\ beh = "rejects" THEN @ + 1 ELSE @,
                   !.escaped = IF r.variant # "A" /\ beh = "throws" THEN @ + 1 ELSE @,
                   !.unhandled = IF r.variant # "A" /\ beh = "rejects" THEN @ + 1 ELSE @]

Click ==
    /\ micro = <<>>
    /\ \E i \in 1..Len(regs), beh \in CommandBehaviours :
          /\ regs[i].state = "done"
          /\ regs[i].result \in {"entry", "undefined"}
          /\ regs[i].clicks < MaxClicks
          /\ regs' = [regs EXCEPT ![i] = OnClick(@, beh)]
    /\ UNCHANGED <<page, styleCall, menus, micro>>
    /\ UNCHANGED wrapperVars
    /\ UNCHANGED asyncVars
    /\ UNCHANGED installVars

\* The deferred result of the command rejects: the await in wrappedCommand
\* throws into its catch block.
CommandRejects ==
    /\ micro = <<>>
    /\ \E i \in 1..Len(regs) :
          /\ regs[i].awaiting > 0
          /\ regs' = [regs EXCEPT ![i] = [@ EXCEPT !.awaiting = @ - 1, !.caught = @ + 1]]
    /\ UNCHANGED <<page, styleCall, menus, micro>>
    /\ UNCHANGED wrapperVars
    /\ UNCHANGED asyncVars
    /\ UNCHANGED installVars

(***************************************************************************)
(* A due timer fires: the callback of the setTimeout that armed it.        *)
(***************************************************************************)
TimerFire ==
    /\ ~notify
    /\ micro = <<>>
    /\ \E x \in timers :
          /\ x.due <= now
          /\ timers' = timers \ {x}
          /\ IF x.kind = "promisify"
             THEN /\ call' = [call EXCEPT !.promise = Reject(call.promise, TimeoutError)]
                  /\ UNCHANGED <<waiter, res>>
             ELSE IF x.kind = "waitForBody"
             THEN /\ waiter' = WaiterReject([waiter EXCEPT !.observer = "disconnected"])
                  /\ UNCHANGED <<call, res>>
             ELSE /\ res' = LoopHead(res)
                  /\ UNCHANGED <<call, waiter>>
    /\ UNCHANGED <<now, doc, notify>>
    /\ UNCHANGED installVars
    /\ UNCHANGED pageVars

InitDoc ==
    /\ doc \in {d \in [readyState : {"loading", "interactive", "complete"},
                      root : BOOLEAN, body : BOOLEAN] : d.body => d.root}
    /\ waiter = IdleWaiter
    /\ notify = FALSE
    /\ res = IdleRes

\* No document activity: the state of the asynchronous helpers while the
\* installer is what is looked at.
InitQuiet ==
    /\ doc = [readyState |-> "loading", root |-> TRUE, body |-> FALSE]
    /\ waiter = IdleWaiter
    /\ notify = FALSE
    /\ res = IdleRes

InitWrapper ==
    /\ call = NoCall
    /\ now = 0
    /\ timers = {}

\* No style has been injected and no menu command registered.
InitPage ==
    /\ page = [head |-> "none", styles |-> <<>>]
    /\ styleCall = [made |-> FALSE]
    /\ menus = NoMenus
    /\ regs = <<>>
    /\ micro = <<>>

Init ==
    /\ InitInstall(HostLegacyValues, HostUnifiedNames, {Undeclared, Undefined, InfoObj})
    /\ InitWrapper
    /\ InitQuiet
    /\ InitPage

InitCall ==
    /\ InitInstall({Undefined, HostFn, HostObj}, {}, {InfoObj})
    /\ GMdefined = FALSE
    /\ InitWrapper
    /\ InitQuiet
    /\ InitPage

\* The helpers on their own: an evaluated file, any document.
InitAsync ==
    /\ script = "gm4-polyfill.js"
    /\ status = "loaded"
    /\ pos = 1
    /\ loads = 1
    /\ runs = 2
    /\ GM_info = InfoObj
    /\ LET s == Installer("B",
                    Installer("A",
                        [ok |-> TRUE, GMdefined |-> FALSE, GMowner |-> "none",
                         GM |-> [k \in UnifiedKeys |-> Undefined],
                         win |-> [k \in LegacyKeys |-> Undefined]],
                        InfoObj, 1),
                    InfoObj, 2)
       IN /\ GMdefined = s.GMdefined
          /\ GMowner = s.GMowner
          /\ GM = s.GM
          /\ win = s.win
    /\ host = [GMdefined |-> FALSE, GM |-> [k \in UnifiedKeys |-> Undefined],
               win |-> [k \in LegacyKeys |-> Undefined]]
    /\ InitWrapper
    /\ InitDoc
    /\ InitPage

RECURSIVE RunAll(_, _, _, _)
RunAll(variants, s, info, run) ==
    IF variants = <<>> THEN s
    ELSE RunAll(Tail(variants), Installer(Head(variants), s, info, run), info, run + 1)

EmptyHost ==
    [GMdefined |-> FALSE, GM |-> [k \in UnifiedKeys |-> Undefined],
     win |-> [k \in LegacyKeys |-> Undefined]]

\* Either file has been evaluated on a host that provides GM_info and
\* nothing else.
InitInstalled ==
    /\ script \in {"gm4-polyfill.js", "part_000"}
    /\ status = "loaded"
    /\ pos = 1
    /\ loads = 1
    /\ runs = Len(Variants(script))
    /\ GM_info = InfoObj
    /\ LET s == RunAll(Variants(script),
                       [ok |-> TRUE, GMdefined |-> FALSE, GMowner |-> "none",
                        GM |-> EmptyHost.GM, win |-> EmptyHost.win],
                       InfoObj, 1)
       IN /\ GMdefined = s.GMdefined
          /\ GMowner = s.GMowner
          /\ GM = s.GM
          /\ win = s.win
    /\ host = EmptyHost

\* The style polyfill on its own: an evaluated file, any document.
InitStyle ==
    /\ InitInstalled
    /\ InitWrapper
    /\ InitDoc
    /\ page \in {pg \in [head : {"none", "document", "stray"}, styles : {<<>>}] :
                    pg.head # "none" => doc.root}
    /\ styleCall = [made |-> FALSE]
    /\ menus = NoMenus
    /\ regs = <<>>
    /\ micro = <<>>

\* Menu registration and the document: an evaluated file, any document.
InitMenu ==
    /\ InitInstalled
    /\ InitWrapper
    /\ InitDoc
    /\ InitPage

\* Clicks on registered entries: an evaluated file, a document with its body.
InitClick ==
    /\ InitInstalled
    /\ InitWrapper
    /\ InitDoc
    /\ doc.body
    /\ InitPage

Next == RunIIFE \/ Reload

Spec == Init /\ [][Next]_vars

NextCall == RunIIFE \/ Reload \/ CallUnified \/ InnerSettle

SpecCall == InitCall /\ [][NextCall]_vars

NextAsync ==
    \/ Tick
    \/ TimerFire
    \/ PromisifyCall
    \/ InnerSettle
    \/ WaitForBodyCall
    \/ ObserverCallback
    \/ RootAppears
    \/ BodyAppears
    \/ OtherMutation
    \/ ReadyStateAdvance
    \/ GetResourceTextCall
    \/ AttemptEnds

SpecAsync == InitAsync /\ [][NextAsync]_vars

NextStyle ==
    \/ AddStyleCall
    \/ HeadAppears
    \/ RootAppears
    \/ BodyAppears
    \/ ReadyStateAdvance

SpecStyle == InitStyle /\ [][NextStyle]_vars

NextMenu ==
    \/ Tick
    \/ RegisterCall
    \/ RegResume
    \/ RegTimerFire
    \/ ObserverCallback
    \/ RootAppears
    \/ BodyAppears
    \/ OtherMutation
    \/ ReadyStateAdvance

SpecMenu == InitMenu /\ [][NextMenu]_vars

NextClick == RegisterCall \/ RegResume \/ Click \/ CommandRejects

SpecClick == InitClick /\ [][NextClick]_vars

(***************************************************************************)
(* The properties.                                                         *)
(***************************************************************************)
IsForwarder(v) == v.t = "function" /\ v.kind = "forward"

\* The mapping the file's first IIFE installs from.
FileMappings == Range(PromiseMappings(Variants(script)[1]))

ForwardedCall == call.made /\ call.via # ""

WrapperCall == call.made /\ call.via = ""

\* C1: an installed forwarding capability, invoked with the argument list A,
\* invokes the legacy entry point with exactly A, and its deferred result
\* settles as the legacy entry point does for A.
C1_ForwardsExactArguments ==
    ForwardedCall =>
        LET direct == ApplyFn(call.fn, call.spread, call.beh)
        IN /\ call.invocations = direct.invoked
           /\ call.invokedWith = direct.with
           /\ IF direct.kind = "throw"
              THEN call.promise = [state |-> "rejected", value |-> direct.val]
              ELSE IF direct.val.t = "promise"
              THEN call.promise.value.of = direct.val.of
              ELSE call.promise = [state |-> "fulfilled", value |-> direct.val]

\* C2: a member the host defined on the unified namespace, whatever its
\* value, is bound to the same value in every later state, and a namespace
\* object of the host is kept.
C2_HostNativeMembersKept ==
    host.GMdefined =>
        /\ GMdefined
        /\ GMowner = "host"
        /\ \A k \in UnifiedKeys : host.GM[k] # Undefined => GM[k] = host.GM[k]

\* C3: once one IIFE has run, no later run of any variant changes a member
\* of the unified namespace or of the legacy surface.
C3_SecondRunChangesNothing ==
    [][runs >= 1 => UNCHANGED <<GMdefined, GMowner, GM, win>>]_vars

C3_SecondRunDone ==
    /\ runs >= 2
    /\ status = "loaded"
    /\ \E k \in UnifiedKeys : IsForwarder(GM[k]) /\ GM[k].run = 1

\* C4: a call of the timeout wrapper whose function returns a deferred
\* result is settled once its deadline has passed, and no timer of the call
\* is pending then.
C4_TimeoutRejects ==
    (WrapperCall /\ call.variant = "A" /\ call.beh = "defers" /\ call.fn = HostFn
        /\ now > call.deadline)
    => /\ call.promise.state \in {"fulfilled", "rejected"}
       /\ \A x \in timers : x.kind # "promisify"

\* C5: the wrapper rejects with the error its function throws, fulfils with
\* the value its function returns, and calls the function once.
C5_SynchronousOutcomes ==
    (WrapperCall /\ call.fn = HostFn) =>
        /\ call.invocations = 1
        /\ call.invokedWith = call.spread
        /\ call.beh = "throws" =>
              call.promise = [state |-> "rejected", value |-> Thrown(call.spread)]
        /\ call.beh = "returns" =>
              call.promise = [state |-> "fulfilled", value |-> Returned(call.spread)]

C5_ThrowRejected ==
    /\ WrapperCall
    /\ call.fn = HostFn
    /\ call.variant = "A"
    /\ call.beh = "throws"
    /\ call.spread # <<>>
    /\ call.promise.state = "rejected"

\* C6 as stated: after installation a unified name the host left undefined
\* holds a forwarding function whenever the legacy name is bound (by the host
\* or by a polyfill), and stays undefined when the legacy name is not bound
\* and has no polyfill.
C6_ForwardWheneverBound ==
    loads >= 1 =>
        \A p \in FileMappings :
            host.GM[p[2]] = Undefined =>
                /\ (host.win[p[1]] # Undefined \/ p[1] \in Range(PolyfillKeys))
                      => IsForwarder(GM[p[2]])
                /\ (host.win[p[1]] = Undefined /\ p[1] \notin Range(PolyfillKeys))
                      => GM[p[2]] = Undefined

\* C6 as amended: after installation a unified name the host left undefined
\* holds a function forwarding to the legacy value whenever the legacy name
\* is bound to a truthy value (by the host or by a polyfill), and stays
\* undefined when the legacy name is not bound and has no polyfill.
C6_ForwardWheneverTruthy ==
    loads >= 1 =>
        \A p \in FileMappings :
            host.GM[p[2]] = Undefined =>
                /\ (Truthy(host.win[p[1]])
                        \/ (host.win[p[1]] = Undefined /\ p[1] \in Range(PolyfillKeys)))
                      => /\ IsForwarder(GM[p[2]])
                         /\ GM[p[2]].old = win[p[1]]
                         /\ Truthy(host.win[p[1]]) => GM[p[2]].old = host.win[p[1]]
                /\ (host.win[p[1]] = Undefined /\ p[1] \notin Range(PolyfillKeys))
                      => GM[p[2]] = Undefined

C6_ForwardInstalled ==
    /\ loads >= 1
    /\ host.win["GM_deleteValue"] = HostFn
    /\ host.GM["deleteValue"] = Undefined
    /\ IsForwarder(GM["deleteValue"])
    /\ host.win["GM_addStyle"] = Undefined
    /\ IsForwarder(GM["addStyle"])
    /\ GM["getValue"] = Undefined

\* C7: a call of an installed forwarding capability returns a promise and
\* throws nothing, whatever the legacy value is and does.
C7_NeverThrowsSynchronously ==
    ForwardedCall =>
        /\ ~call.threw
        /\ call.promise.state \in {"following", "fulfilled", "rejected"}
        /\ call.fn.t # "function" => call.promise = [state |-> "rejected", value |-> TypeError]
        /\ (call.fn.t = "function" /\ call.beh = "throws") => call.promise.state = "rejected"

C7_NonCallableRejected ==
    /\ ForwardedCall
    /\ call.fn = HostObj
    /\ call.variant = "A"
    /\ call.promise.state = "rejected"

Failed(outcomes, i) == i <= Len(outcomes) /\ outcomes[i] # "ok"

\* C8: when the first two attempts fail and the third succeeds, the text is
\* returned after 3 attempts and exactly the two waits of 2000 and 4000 ms.
C8_SucceedsOnThirdAttempt ==
    (Len(res.outcomes) = 3 /\ Failed(res.outcomes, 1) /\ Failed(res.outcomes, 2)
        /\ res.outcomes[3] = "ok")
    => /\ res.state = "done"
       /\ res.result = "text"
       /\ res.tries = 3
       /\ res.delays = <<2000, 4000>>
       /\ ~res.rejected
       /\ \A x \in timers : x.kind # "backoff"

C8_ThirdAttemptSucceeded ==
    /\ res.state = "done"
    /\ res.result = "text"
    /\ res.outcomes = <<"httpStatus", "fetchRejects", "ok">>

\* C9: each failed attempt but the last is followed by a retry; when every
\* attempt fails the call ends after exactly 3 attempts with null, without
\* rejecting and without a wait after the last failure.
C9_ExhaustionReturnsNull ==
    /\ res.tries <= 3
    /\ ~res.rejected
    /\ (res.state = "sleeping") =>
          /\ \E x \in timers : x.kind = "backoff"
          /\ Len(res.outcomes) < 3
          /\ Len(res.delays) = Len(res.outcomes)
    /\ (\A i \in 1..Len(res.outcomes) : res.outcomes[i] # "ok") =>
          /\ (res.state = "done") <=> (Len(res.outcomes) = 3)
          /\ (res.state = "done") =>
                /\ res.result = "null"
                /\ res.tries = 3
                /\ res.delays = <<2000, 4000>>
                /\ \A x \in timers : x.kind # "backoff"

C9_Exhausted ==
    /\ res.state = "done"
    /\ res.result = "null"
    /\ res.outcomes = <<"urlUnavailable", "fetchRejects", "httpStatus">>

\* C10: a waiter called while the body is absent has resolved, once, and has
\* disconnected its observer, as soon as the body has appeared and the
\* observers have been notified.
C10_LateBodyResolves ==
    (waiter.state # "idle" /\ ~waiter.bodyAtCall /\ doc.body /\ ~notify)
    => /\ waiter.state = "resolved"
       /\ waiter.resolves = 1
       /\ waiter.observer = "disconnected"

\* C11: a waiter called while the body exists is resolved with the body by
\* the call itself; it has registered no observer and armed no timer, and
\* never rejects.
C11_ImmediateWhenBodyPresent ==
    (waiter.state # "idle" /\ waiter.bodyAtCall) =>
        /\ waiter.state = "resolved"
        /\ waiter.value = "document.body"
        /\ waiter.resolves = 1
        /\ waiter.rejects = 0
        /\ waiter.observer = "none"
        /\ \A x \in timers : x.kind # "waitForBody"

C11_ResolvedAtCall ==
    /\ waiter.variant = "A"
    /\ waiter.bodyAtCall
    /\ waiter.state = "resolved"
    /\ now >= BodyTimeout

\* C13: a legacy name the host bound, to whatever value, keeps that value,
\* and a legacy name that has no polyfill is never written.
C13_PolyfillsOnlyWhereAbsent ==
    \A k \in LegacyKeys :
        /\ host.win[k] # Undefined => win[k] = host.win[k]
        /\ k \notin Range(PolyfillKeys) => win[k] = host.win[k]

C13_HostEntryKeptBesidePolyfills ==
    /\ loads >= 1
    /\ host.win["GM_addStyle"] = Falsy
    /\ win["GM_addStyle"] = Falsy
    /\ win["GM_registerMenuCommand"].t = "function"
    /\ win["GM_getResourceText"].t = "function"

\* C14: once gm4-polyfill.js has been evaluated, the unified namespace has
\* the members info, log, warn and error, whether the host had created the
\* namespace or not and whether GM_info holds an object or not.
C14_ExposesDiagnostics ==
    (script = "gm4-polyfill.js" /\ loads >= 1) =>
        \A k \in {"info", "log", "warn", "error"} : Truthy(GM[k])

\* C18: whenever the promise of a call of the timeout wrapper has been
\* resolved or rejected, the timer the call armed is not pending.
C18_TimerCancelledOnOutcome ==
    (WrapperCall /\ call.variant = "A" /\ call.promise.state # "pending") =>
        \A x \in timers : x.kind # "promisify"

C18_RejectedWithoutTimer ==
    /\ WrapperCall
    /\ call.variant = "A"
    /\ call.timeout = Num(2000)
    /\ call.beh = "throws"
    /\ call.promise.state = "rejected"
    /\ timers = {}

\* C19: the namespace exists once an IIFE has run to its end; no state shows a polyfill
\* on the legacy surface without the forwarding capability that wraps it, and
\* both were installed by the same run; after installation every polyfilled
\* name the host lacked on both surfaces has its polyfill and its forwarding
\* capability.
C19_PolyfillsPrecedeForwarding ==
    /\ (loads >= 1 \/ pos > 1) => GMdefined
    /\ \A p \in FileMappings :
          (p[1] \in Range(PolyfillKeys) /\ host.win[p[1]] = Undefined
              /\ host.GM[p[2]] = Undefined)
          => /\ win[p[1]] # Undefined =>
                   /\ IsForwarder(GM[p[2]])
                   /\ GM[p[2]].old = win[p[1]]
                   /\ GM[p[2]].run = win[p[1]].run
             /\ loads >= 1 => (win[p[1]].t = "function" /\ win[p[1]].kind = "polyfill")

C19_PolyfillForwarded ==
    /\ loads >= 1
    /\ script = "gm4-polyfill.js"
    /\ host.win["GM_registerMenuCommand"] = Undefined
    /\ IsForwarder(GM["registerMenuCommand"])
    /\ GM["registerMenuCommand"].old = Polyfill("GM_registerMenuCommand", "A", 1)
    /\ Truthy(GM["log"])

\* C20: a call of the waiter with a timeout settles at most once: resolve and
\* reject are called at most once between them, and once it has settled its
\* timer is not pending and its observer is not connected.
C20_SettlesAtMostOnce ==
    waiter.variant = "A" =>
        /\ waiter.resolves + waiter.rejects <= 1
        /\ waiter.state = "resolved" <=> waiter.resolves = 1
        /\ waiter.state = "rejected" <=> waiter.rejects = 1
        /\ waiter.state \in {"resolved", "rejected"} =>
              /\ \A x \in timers : x.kind # "waitForBody"
              /\ waiter.observer \in {"none", "disconnected"}

C20_RejectedAtDeadline ==
    /\ waiter.variant = "A"
    /\ waiter.state = "rejected"
    /\ waiter.observer = "disconnected"
    /\ doc.body
    /\ now = BodyTimeout

\* C12: a call of the style polyfill lets no exception escape; when the
\* document has no head it returns null and appends nothing; when it has one
\* it returns a style node that did not exist before, whose content is the
\* text passed in, appended as the last child of the head.
C12_StyleInjection ==
    styleCall.made =>
        /\ ~styleCall.threw
        /\ styleCall.headBefore = "none" =>
              /\ styleCall.result = Null
              /\ styleCall.stylesAfter = styleCall.stylesBefore
        /\ styleCall.headBefore # "none" =>
              /\ styleCall.result.t = "style"
              /\ styleCall.result.textContent = styleCall.css
              /\ styleCall.result \notin Range(styleCall.stylesBefore)
              /\ styleCall.stylesAfter = Append(styleCall.stylesBefore, styleCall.result)
              /\ SubSeq(page.styles, 1, Len(styleCall.stylesAfter)) = styleCall.stylesAfter

C12_NullWithoutHead ==
    /\ styleCall.made
    /\ styleCall.variant = "A"
    /\ styleCall.headBefore = "none"
    /\ styleCall.css = "body{margin:0}"
    /\ styleCall.result = Null
    /\ styleCall.logged
    /\ page.styles = <<>>

\* The entries of all containers, and the registrations that went on after a
\* resolved wait.
AllItems == UNION {Range(menus.containers[m].items) : m \in 1..Len(menus.containers)}

ItemCount(i) ==
    Cardinality({<<m, k>> \in (1..Len(menus.containers)) \X (1..MaxRegs + 1) :
                    /\ k <= Len(menus.containers[m].items)
                    /\ menus.containers[m].items[k] = i})

Succeeded == {i \in 1..Len(regs) : regs[i].state = "done" /\ regs[i].waiter.state = "resolved"}

\* C15: whatever the interleaving of the registrations' waits, at most one
\* container exists and at most one registration created it; every
\* registration that went on after a resolved wait has exactly one entry in
\* that container, and no other registration has one.
C15_ContainerCreatedOnce ==
    /\ Len(menus.containers) <= 1
    /\ Cardinality({i \in 1..Len(regs) : regs[i].created}) <= 1
    /\ Succeeded # {} =>
          /\ Len(menus.containers) = 1
          /\ regs[menus.containers[1].by].created
          /\ Len(menus.containers[1].items) = Cardinality(Succeeded)
    /\ \A i \in 1..Len(regs) : ItemCount(i) = IF i \in Succeeded THEN 1 ELSE 0

C15_TwoEntriesOneContainer ==
    /\ Len(regs) = 2
    /\ ~regs[1].waiter.bodyAtCall
    /\ regs[2].waiter.bodyAtCall
    /\ regs[1].created
    /\ regs[2].state = "done"
    /\ Len(menus.containers) = 1
    /\ menus.containers[1].items = <<1, 2>>

\* C16: an entry registered by the polyfill of gm4-polyfill.js invokes its
\* command at the first click and at no later one; every failure of the
\* command, thrown or rejected, is caught in the handler, and none escapes
\* to the dispatch of the event.
C16_ClickHandledOnce ==
    \A i \in 1..Len(regs) :
        regs[i].variant = "A" =>
            /\ regs[i].invoked <= 1
            /\ regs[i].clicks >= 1 => regs[i].invoked = 1
            /\ regs[i].escaped = 0
            /\ regs[i].unhandled = 0
            /\ regs[i].caught + regs[i].awaiting = regs[i].failed

C16_SecondClickIgnored ==
    /\ Len(regs) >= 1
    /\ regs[1].variant = "A"
    /\ regs[1].clicks = 2
    /\ regs[1].invoked = 1
    /\ regs[1].failed = 1
    /\ regs[1].caught = 1

\* C17: a registration through the polyfill of gm4-polyfill.js never rejects;
\* it returns the entry when its wait resolved; its wait is bounded by a timer
\* due 10 s after the call, and it is not waiting any more one tick of the
\* clock after that; when the wait was rejected it returns null and has
\* created no container and no entry.
C17_RegistrationNeverRejects ==
    \A i \in 1..Len(regs) :
        regs[i].variant = "A" =>
            /\ ~regs[i].rejected
            /\ regs[i].state = "waiting" =>
                  regs[i].timers = {[kind |-> "waitForBody", due |-> regs[i].calledAt + BodyTimeout]}
            /\ regs[i].state = "waiting" => now < regs[i].calledAt + BodyTimeout + TickMs
            /\ (regs[i].state = "done" /\ regs[i].waiter.state = "resolved") =>
                  /\ regs[i].result = "entry"
                  /\ i \in AllItems
            /\ (regs[i].state = "done" /\ regs[i].waiter.state = "rejected") =>
                  /\ regs[i].result = "null"
                  /\ regs[i].logged
                  /\ ~regs[i].created
                  /\ i \notin AllItems

C17_NullAtDeadline ==
    /\ Len(regs) >= 1
    /\ regs[1].variant = "A"
    /\ ~doc.root
    /\ regs[1].result = "null"
    /\ now = regs[1].calledAt + BodyTimeout
    /\ menus = NoMenus

====
